---- MODULE Spec2Model ----
(***************************************************************************)
(* Packed (SIMD) iteration engine of faster: src/src/iters.rs.             *)
(*                                                                         *)
(* A slice-backed PackedIter walks a borrowed scalar slice with a cursor   *)
(* `position`; PackedMap wraps an inner packed iterator and a transform.   *)
(* simd_reduce, scalar_collect and scalar_fill are the terminal            *)
(* operations.  Vectors are sequences of WIDTH scalars; Rust lane i is     *)
(* element i + 1 of the sequence, Rust slice index k is element k + 1.     *)
(***************************************************************************)
EXTENDS Integers, Sequences, FiniteSets, TLC

\* Bounds of the model.
MaxLen == 4
MaxWidth == 3

\* Scalars of the input slices, and scalars of the lanes of a `default`.
DataVals == {1, 2}
DefaultVals == {0, 7}
\* Lane-wise transforms handed to simd_map, fold functions handed to
\* simd_reduce.
Funcs == {"id", "inc"}
Folds == {"push", "add"}

\* usize: TLC integers are 32 bits wide, so the model's unsigned word keeps 30
\* bits, far above every length and position the bounds allow.
usize_BITS == 30
usize_MAX == 2^usize_BITS - 1

\* Content of a slot of a Vec whose length was set before it was written.
Uninit == -1

VARIABLES
    WIDTH,             \* Self::Vector::WIDTH of the build
    debug_assertions,  \* whether debug_assert! is compiled in
    iter,              \* the packed iterator: a PackedIter or a PackedMap
    status,            \* "ok", or "panicked" once a call has unwound
    last,              \* the last call: operation, receiver before, result
    hist               \* what has been called on the iterator so far

vars == <<WIDTH, debug_assertions, iter, status, last, hist>>

None == [some |-> FALSE, val |-> <<>>]
Some(v) == [some |-> TRUE, val |-> v]

\* What a call leaves behind: the receiver, the value returned, and whether
\* the call unwound instead of returning.
Ret(s, r) == [self |-> s, ret |-> r, panicked |-> FALSE]
Panic(s) == [self |-> s, ret |-> None, panicked |-> TRUE]

(***************************************************************************)
(* The vector capability (vecs::Packed).                                   *)
(***************************************************************************)
load(data, offset) == [i \in 1..WIDTH |-> data[offset + i]]

splat(x) == [i \in 1..WIDTH |-> x]

extract(v, i) == v[i + 1]

replace(v, i, x) == [v EXCEPT ![i + 1] = x]

default_vector == splat(0)

coalesce(v) == extract(v, 0)

store(v, buf, offset) ==
    [j \in 1..Len(buf) |->
        IF offset < j /\ j <= offset + WIDTH THEN v[j - offset] ELSE buf[j]]

\* The closure handed to simd_map, applied to a vector.
ScalarFn(f, x) == IF f = "inc" THEN x + 1 ELSE x

ApplyFunc(f, v) == [i \in 1..Len(v) |-> ScalarFn(f, v[i])]

\* The closure handed to simd_reduce, applied to an accumulator and a vector.
Fold(f, acc, v) ==
    IF f = "push" THEN Append(acc, v)
    ELSE [i \in 1..Len(v) |-> acc[i] + v[i]]

(***************************************************************************)
(* PackedIter: the slice-backed iterator.                                  *)
(***************************************************************************)
PackedIter(data) == [kind |-> "PackedIter", position |-> 0, data |-> data]

PackedIter_len(self) == Len(self.data)

\* a - b on usize: a build with overflow checks (the debug profile) panics
\* when the result would be negative, a build without them wraps.
usize_sub(a, b) ==
    [val |-> (a - b) % (usize_MAX + 1), overflow |-> a < b]

\* What a size_hint that computed `remaining` by the subtraction d returns.
SizeHintRet(self, d, remaining) ==
    IF d.overflow /\ debug_assertions THEN Panic(self)
    ELSE Ret(self, <<remaining, Some(remaining)>>)

PackedIter_size_hint(self) ==
    LET d == usize_sub(Len(self.data), self.position)
    IN  SizeHintRet(self, d, d.val)

PackedIter_scalar_len(self) == Len(self.data)

PackedIter_scalar_position(self) == self.position

\* Mutation: a scalar step at the end of the slice still moves the cursor.
PackedIter_next_PastEnd(self) ==
    IF self.position < Len(self.data)
    THEN Ret([self EXCEPT !.position = self.position + 1],
             Some(self.data[self.position + 1]))
    ELSE Ret([self EXCEPT !.position = self.position + 1], None)

PackedIter_next(self) ==
    IF self.position < Len(self.data)
    THEN Ret([self EXCEPT !.position = self.position + 1],
             Some(self.data[self.position + 1]))
    ELSE Ret(self, None)

\* Mutation: the load ignores the cursor.
PackedIter_next_vector_LoadFromStart(self) ==
    IF self.position + WIDTH <= PackedIter_scalar_len(self)
    THEN Ret([self EXCEPT !.position = self.position + WIDTH],
             Some(load(self.data, 0)))
    ELSE Ret(self, None)

\* Mutation: the cursor advances by one scalar after a full vector.
PackedIter_next_vector_StepOne(self) ==
    IF self.position + WIDTH <= PackedIter_scalar_len(self)
    THEN Ret([self EXCEPT !.position = self.position + 1],
             Some(load(self.data, self.position)))
    ELSE Ret(self, None)

\* Mutation: the bound check is strict.
PackedIter_next_vector_Strict(self) ==
    IF self.position + WIDTH < PackedIter_scalar_len(self)
    THEN Ret([self EXCEPT !.position = self.position + WIDTH],
             Some(load(self.data, self.position)))
    ELSE Ret(self, None)

PackedIter_next_vector(self) ==
    IF self.position + WIDTH <= PackedIter_scalar_len(self)
    THEN Ret([self EXCEPT !.position = self.position + WIDTH],
             Some(load(self.data, self.position)))
    ELSE Ret(self, None)

\* for i in i..n { ret = ret.replace(i, self.data[self.position + i]) }
\* replace panics on a lane index that is not below the width.
RECURSIVE PartialLoop(_, _, _, _)
PartialLoop(self, ret, i, n) ==
    IF i >= n THEN [ret |-> ret, panicked |-> FALSE]
    ELSE IF i >= WIDTH THEN [ret |-> ret, panicked |-> TRUE]
    ELSE PartialLoop(self, replace(ret, i, self.data[self.position + i + 1]),
                     i + 1, n)

\* Mutation: the cursor advances by one scalar instead of jumping to the end.
PackedIter_next_partial_StepOne(self, default) ==
    IF self.position < PackedIter_scalar_len(self)
    THEN LET lp == PartialLoop(self, splat(extract(default, 0)), 0,
                               PackedIter_scalar_len(self) - self.position)
         IN  IF lp.panicked THEN Panic(self)
             ELSE Ret([self EXCEPT !.position = self.position + 1],
                      Some(lp.ret))
    ELSE Ret(self, None)

PackedIter_next_partial(self, default) ==
    IF self.position < PackedIter_scalar_len(self)
    THEN LET lp == PartialLoop(self, splat(extract(default, 0)), 0,
                               PackedIter_scalar_len(self) - self.position)
         IN  IF lp.panicked THEN Panic(self)
             ELSE Ret([self EXCEPT !.position = PackedIter_scalar_len(self)],
                      Some(lp.ret))
    ELSE Ret(self, None)

(***************************************************************************)
(* PackedMap: the map combinator.                                          *)
(***************************************************************************)
simd_map(self, func) == [kind |-> "PackedMap", iter |-> self, func |-> func]

\* Option::map of a call on the inner iterator, put back into the combinator.
MapRet(self, r) ==
    [self |-> [self EXCEPT !.iter = r.self],
     ret |-> IF r.ret.some THEN Some(ApplyFunc(self.func, r.ret.val)) ELSE None,
     panicked |-> r.panicked]

\* Mutation: the combinator reports its length in vectors.
PackedMap_len_InVectors(self) == PackedIter_len(self.iter) \div WIDTH

PackedMap_len(self) == PackedIter_len(self.iter)

PackedMap_scalar_len(self) == PackedIter_scalar_len(self.iter)

\* Mutation: the combinator counts its position in vectors.
PackedMap_scalar_position_InVectors(self) ==
    PackedIter_scalar_position(self.iter) \div WIDTH

PackedMap_scalar_position(self) == PackedIter_scalar_position(self.iter)

PackedMap_size_hint(self) ==
    LET d == usize_sub(PackedMap_len(self),
                       (PackedIter_scalar_position(self.iter) * WIDTH)
                           % (usize_MAX + 1))
    IN  SizeHintRet(self, d, d.val \div WIDTH)

\* Mutation: the scalar step forgets the transform.
PackedMap_next_NoFunc(self) ==
    LET r == PackedIter_next(self.iter)
    IN  [self |-> [self EXCEPT !.iter = r.self],
         ret |-> r.ret,
         panicked |-> r.panicked]

PackedMap_next(self) ==
    LET r == PackedIter_next(self.iter)
    IN  [self |-> [self EXCEPT !.iter = r.self],
         ret |-> IF r.ret.some
                 THEN Some(coalesce(ApplyFunc(self.func, splat(r.ret.val))))
                 ELSE None,
         panicked |-> r.panicked]

PackedMap_next_vector(self) == MapRet(self, PackedIter_next_vector(self.iter))

\* Mutation: the caller's default is handed to the inner iterator.
PackedMap_next_partial_UserDefault(self, default) ==
    MapRet(self, PackedIter_next_partial(self.iter, default))

PackedMap_next_partial(self, default) ==
    MapRet(self, PackedIter_next_partial(self.iter, default_vector))

(***************************************************************************)
(* The PackedIterator trait, dispatched on the implementing type.          *)
(***************************************************************************)
len(self) ==
    IF self.kind = "PackedMap" THEN PackedMap_len(self) ELSE PackedIter_len(self)

size_hint(self) ==
    IF self.kind = "PackedMap" THEN PackedMap_size_hint(self)
    ELSE PackedIter_size_hint(self)

scalar_len(self) ==
    IF self.kind = "PackedMap" THEN PackedMap_scalar_len(self)
    ELSE PackedIter_scalar_len(self)

scalar_position(self) ==
    IF self.kind = "PackedMap" THEN PackedMap_scalar_position(self)
    ELSE PackedIter_scalar_position(self)

next(self) ==
    IF self.kind = "PackedMap" THEN PackedMap_next(self) ELSE PackedIter_next(self)

next_vector(self) ==
    IF self.kind = "PackedMap" THEN PackedMap_next_vector(self)
    ELSE PackedIter_next_vector(self)

next_partial(self, default) ==
    IF self.kind = "PackedMap" THEN PackedMap_next_partial(self, default)
    ELSE PackedIter_next_partial(self, default)

(***************************************************************************)
(* simd_reduce.                                                            *)
(***************************************************************************)
\* while let Some(v) = self.next_vector() { acc = func(acc, v); }
RECURSIVE ReduceVectorLoop(_, _, _)
ReduceVectorLoop(self, acc, func) ==
    LET r == next_vector(self)
    IN  IF r.ret.some
        THEN ReduceVectorLoop(r.self, Fold(func, acc, r.ret.val), func)
        ELSE [self |-> r.self, acc |-> acc, panicked |-> FALSE]

\* while let Some(v) = self.next_partial(default) { acc = func(acc, v); }
RECURSIVE ReducePartialLoop(_, _, _, _)
ReducePartialLoop(self, acc, default, func) ==
    LET r == next_partial(self, default)
    IN  IF r.panicked THEN [self |-> r.self, acc |-> acc, panicked |-> TRUE]
        ELSE IF r.ret.some
        THEN ReducePartialLoop(r.self, Fold(func, acc, r.ret.val), default, func)
        ELSE [self |-> r.self, acc |-> acc, panicked |-> FALSE]

\* debug_assert!(self.next_partial(default).is_none()); acc
ReduceAssert(self, acc, default) ==
    IF debug_assertions
    THEN LET r == next_partial(self, default)
         IN  IF r.panicked \/ r.ret.some THEN Panic(r.self)
             ELSE Ret(r.self, acc)
    ELSE Ret(self, acc)

\* Mutation: without a full vector the tail is not folded.
simd_reduce_NoTailBranch(self, start, default, func) ==
    LET v1 == next_vector(self)
    IN  IF v1.ret.some
        THEN LET lp == ReduceVectorLoop(v1.self, Fold(func, start, v1.ret.val),
                                        func)
                 p == next_partial(lp.self, default)
             IN  IF p.panicked THEN Panic(p.self)
                 ELSE ReduceAssert(p.self,
                                   IF p.ret.some
                                   THEN Fold(func, lp.acc, p.ret.val)
                                   ELSE lp.acc,
                                   default)
        ELSE Ret(v1.self, start)

\* Mutation: with nothing to fold, the default vector is folded.
simd_reduce_FoldsDefault(self, start, default, func) ==
    LET v1 == next_vector(self)
    IN  IF v1.ret.some
        THEN LET lp == ReduceVectorLoop(v1.self, Fold(func, start, v1.ret.val),
                                        func)
                 p == next_partial(lp.self, default)
             IN  IF p.panicked THEN Panic(p.self)
                 ELSE ReduceAssert(p.self,
                                   IF p.ret.some
                                   THEN Fold(func, lp.acc, p.ret.val)
                                   ELSE lp.acc,
                                   default)
        ELSE LET p == next_partial(v1.self, default)
             IN  IF p.panicked THEN Panic(p.self)
                 ELSE IF p.ret.some
                 THEN LET lp == ReducePartialLoop(p.self,
                                    Fold(func, start, p.ret.val), default, func)
                      IN  IF lp.panicked THEN Panic(lp.self)
                          ELSE ReduceAssert(lp.self, lp.acc, default)
                 ELSE Ret(p.self, Fold(func, start, default))

\* Mutation: the first full vector is not folded into the accumulator.
simd_reduce_DropsFirst(self, start, default, func) ==
    LET v1 == next_vector(self)
    IN  IF v1.ret.some
        THEN LET lp == ReduceVectorLoop(v1.self, start, func)
                 p == next_partial(lp.self, default)
             IN  IF p.panicked THEN Panic(p.self)
                 ELSE ReduceAssert(p.self,
                                   IF p.ret.some
                                   THEN Fold(func, lp.acc, p.ret.val)
                                   ELSE lp.acc,
                                   default)
        ELSE LET p == next_partial(v1.self, default)
             IN  IF p.panicked THEN Panic(p.self)
                 ELSE IF p.ret.some
                 THEN LET lp == ReducePartialLoop(p.self,
                                    Fold(func, start, p.ret.val), default, func)
                      IN  IF lp.panicked THEN Panic(lp.self)
                          ELSE ReduceAssert(lp.self, lp.acc, default)
                 ELSE Ret(p.self, start)

simd_reduce(self, start, default, func) ==
    LET v1 == next_vector(self)
    IN  IF v1.ret.some
        THEN LET lp == ReduceVectorLoop(v1.self, Fold(func, start, v1.ret.val),
                                        func)
                 p == next_partial(lp.self, default)
             IN  IF p.panicked THEN Panic(p.self)
                 ELSE ReduceAssert(p.self,
                                   IF p.ret.some
                                   THEN Fold(func, lp.acc, p.ret.val)
                                   ELSE lp.acc,
                                   default)
        ELSE LET p == next_partial(v1.self, default)
             IN  IF p.panicked THEN Panic(p.self)
                 ELSE IF p.ret.some
                 THEN LET lp == ReducePartialLoop(p.self,
                                    Fold(func, start, p.ret.val), default, func)
                      IN  IF lp.panicked THEN Panic(lp.self)
                          ELSE ReduceAssert(lp.self, lp.acc, default)
                 ELSE Ret(p.self, start)

(***************************************************************************)
(* IntoScalar: scalar_collect.  The result carries the buffer and the      *)
(* offsets written, in the order they were written.                        *)
(***************************************************************************)
Offsets(offset, n) == [i \in 1..n |-> offset + i - 1]

\* while let Some(vec) = self.next_vector() { vec.store(ret, offset); offset += WIDTH; }
RECURSIVE CollectVectorLoop(_, _, _, _)
CollectVectorLoop(self, buf, writes, offset) ==
    LET r == next_vector(self)
    IN  IF r.ret.some
        THEN IF offset + WIDTH > Len(buf)
             THEN [self |-> r.self, buf |-> buf, writes |-> writes,
                   offset |-> offset, panicked |-> TRUE]
             ELSE CollectVectorLoop(r.self, store(r.ret.val, buf, offset),
                                    writes \o Offsets(offset, WIDTH),
                                    offset + WIDTH)
        ELSE [self |-> r.self, buf |-> buf, writes |-> writes,
              offset |-> offset, panicked |-> FALSE]

\* while let Some(scl) = self.next() { ret[offset] = scl; offset += 1; }
RECURSIVE CollectScalarLoop(_, _, _, _)
CollectScalarLoop(self, buf, writes, offset) ==
    LET r == next(self)
    IN  IF r.ret.some
        THEN IF offset >= Len(buf)
             THEN [self |-> r.self, buf |-> buf, writes |-> writes,
                   offset |-> offset, panicked |-> TRUE]
             ELSE CollectScalarLoop(r.self,
                                    [buf EXCEPT ![offset + 1] = r.ret.val],
                                    Append(writes, offset), offset + 1)
        ELSE [self |-> r.self, buf |-> buf, writes |-> writes,
              offset |-> offset, panicked |-> FALSE]

scalar_collect(self) ==
    LET ret == [i \in 1..len(self) |-> Uninit]
        lv == CollectVectorLoop(self, ret, <<>>, 0)
        ls == CollectScalarLoop(lv.self, lv.buf, lv.writes, lv.offset)
    IN  IF lv.panicked THEN Panic(lv.self)
        ELSE IF ls.panicked THEN Panic(ls.self)
        ELSE Ret(ls.self, [buf |-> ls.buf, writes |-> ls.writes])

(***************************************************************************)
(* IntoScalar: scalar_fill, into the caller's buffer.  A store or an       *)
(* indexed write that does not fit the buffer panics.                      *)
(***************************************************************************)
\* while let Some(vec) = self.next_vector() { vec.store(fill, offset); offset += WIDTH; }
RECURSIVE FillVectorLoop(_, _, _, _)
FillVectorLoop(self, fill, writes, offset) ==
    LET r == next_vector(self)
    IN  IF r.ret.some
        THEN IF offset + WIDTH > Len(fill)
             THEN [self |-> r.self, buf |-> fill, writes |-> writes,
                   offset |-> offset, panicked |-> TRUE]
             ELSE FillVectorLoop(r.self, store(r.ret.val, fill, offset),
                                 writes \o Offsets(offset, WIDTH),
                                 offset + WIDTH)
        ELSE [self |-> r.self, buf |-> fill, writes |-> writes,
              offset |-> offset, panicked |-> FALSE]

\* while let Some(scl) = self.next() { fill[offset] = scl; offset += 1; }
RECURSIVE FillScalarLoop(_, _, _, _)
FillScalarLoop(self, fill, writes, offset) ==
    LET r == next(self)
    IN  IF r.ret.some
        THEN IF offset >= Len(fill)
             THEN [self |-> r.self, buf |-> fill, writes |-> writes,
                   offset |-> offset, panicked |-> TRUE]
             ELSE FillScalarLoop(r.self,
                                 [fill EXCEPT ![offset + 1] = r.ret.val],
                                 Append(writes, offset), offset + 1)
        ELSE [self |-> r.self, buf |-> fill, writes |-> writes,
              offset |-> offset, panicked |-> FALSE]

scalar_fill(self, fill) ==
    LET lv == FillVectorLoop(self, fill, <<>>, 0)
        ls == FillScalarLoop(lv.self, lv.buf, lv.writes, lv.offset)
    IN  IF lv.panicked THEN Panic(lv.self)
        ELSE IF ls.panicked THEN Panic(ls.self)
        ELSE Ret(ls.self, [buf |-> ls.buf, writes |-> ls.writes])

(***************************************************************************)
(* The state machine: an iterator is built over a slice, optionally        *)
(* wrapped by simd_map, and then driven by any sequence of calls.          *)
(***************************************************************************)
Slices == UNION {[1..n -> DataVals] : n \in 0..MaxLen}

\* The `default` vectors handed to next_partial and simd_reduce: the lanes
\* all equal, or lane 0 different from the other lanes.
Defaults ==
    {[i \in 1..WIDTH |-> IF i = 1 THEN a ELSE b] : a, b \in DefaultVals}

Starts(func) == IF func = "push" THEN {<<>>} ELSE {splat(0)}

\* What the caller's buffer holds before scalar_fill.
Stale == 0

\* The buffers handed to scalar_fill: one scalar short of the slice, as long
\* as the slice, one scalar longer.
FillBuffers(self) ==
    {[i \in 1..n |-> Stale] :
        n \in {m \in {scalar_len(self) - 1, scalar_len(self),
                      scalar_len(self) + 1} : m >= 0}}

\* The slice-backed iterator at the bottom of `iter`.
Inner(self) == IF self.kind = "PackedMap" THEN self.iter ELSE self

NewHist == [onlyVector |-> TRUE, vectors |-> 0, vectorNone |-> FALSE,
            partialCalled |-> FALSE, terminalReturned |-> FALSE]

Init ==
    /\ WIDTH \in 1..MaxWidth
    /\ debug_assertions \in BOOLEAN
    /\ \E data \in Slices :
          \/ iter = PackedIter(data)
          \/ \E func \in Funcs : iter = simd_map(PackedIter(data), func)
    /\ status = "ok"
    /\ last = [op |-> "new", pre |-> iter, arg |-> <<>>, out |-> None,
               hist |-> NewHist]
    /\ hist = NewHist

\* A call `op` with argument `arg` whose outcome is r.
Call(op, arg, r, h) ==
    /\ status = "ok"
    /\ iter' = r.self
    /\ status' = IF r.panicked THEN "panicked" ELSE "ok"
    /\ last' = [op |-> op, pre |-> iter, arg |-> arg, out |-> r.ret,
                hist |-> hist]
    /\ hist' = h
    /\ UNCHANGED <<WIDTH, debug_assertions>>

\* The run of next_vector calls made on the fresh iterator ends with the
\* first call of another operation.
Other(partial) ==
    [onlyVector |-> FALSE, vectors |-> 0, vectorNone |-> FALSE,
     partialCalled |-> hist.partialCalled \/ partial,
     terminalReturned |-> hist.terminalReturned]

\* A terminal operation (simd_reduce, scalar_collect, scalar_fill) whose
\* outcome is r.
Terminal(partial, r) ==
    [Other(partial) EXCEPT !.terminalReturned = @ \/ ~r.panicked]

NextScalar == Call("next", <<>>, next(iter), Other(FALSE))

NextVector ==
    LET r == next_vector(iter)
    IN  Call("next_vector", <<>>, r,
             IF hist.onlyVector
             THEN [hist EXCEPT !.vectors = IF r.ret.some THEN @ + 1 ELSE @,
                               !.vectorNone = @ \/ ~r.ret.some]
             ELSE hist)

NextPartial ==
    \E default \in Defaults :
        Call("next_partial", default, next_partial(iter, default), Other(TRUE))

Reduce ==
    \E func \in Folds : \E start \in Starts(func) : \E default \in Defaults :
        LET r == simd_reduce(iter, start, default, func)
        IN  Call("simd_reduce",
                 [start |-> start, default |-> default, func |-> func],
                 r, Terminal(TRUE, r))

Collect ==
    LET r == scalar_collect(iter)
    IN  Call("scalar_collect", <<>>, r, Terminal(FALSE, r))

Fill ==
    \E fill \in FillBuffers(iter) :
        LET r == scalar_fill(iter, fill)
        IN  Call("scalar_fill", fill, r, Terminal(FALSE, r))

Next == NextScalar \/ NextVector \/ NextPartial \/ Reduce \/ Collect \/ Fill

Spec == Init /\ [][Next]_vars

\* The caller keeps stepping: each `while let` loop of simd_reduce,
\* scalar_collect and scalar_fill calls its stepping operation again for as
\* long as the last call returned a value.
\* A stepping call that can still move the cursor is eventually made.
cursor == <<iter, status>>

\* What a stepping call whose outcome is r does to the cursor.
Moves(r) ==
    /\ status = "ok"
    /\ iter' = r.self
    /\ status' = IF r.panicked THEN "panicked" ELSE "ok"

\* Some stepping call that still moves the cursor.
Step ==
    \/ Moves(next(iter))
    \/ Moves(next_vector(iter))
    \/ \E default \in Defaults : Moves(next_partial(iter, default))

LiveSpec == Init /\ [][Next]_vars /\ WF_cursor(Step)

\* Shorthands for the state of the cursor.
L == Len(Inner(iter).data)
Position == Inner(iter).position
PrePosition == Inner(last.pre).position
Data == Inner(iter).data

(***************************************************************************)
(* Properties.                                                             *)
(***************************************************************************)
IsSlice == iter.kind = "PackedIter"
IsMap == iter.kind = "PackedMap"

\* C1: on a slice-backed iterator at position p, next_vector returns a
\* vector iff p + W <= L; the vector's lane i is element p + i of the slice
\* and position becomes p + W; otherwise it returns none and position stays.
C1_NextVectorContract ==
    (IsSlice /\ last.op = "next_vector") =>
        /\ status = "ok"
        /\ last.out.some <=> (PrePosition + WIDTH <= L)
        /\ last.out.some =>
              /\ DOMAIN last.out.val = 1..WIDTH
              /\ \A i \in 0..(WIDTH - 1) :
                    last.out.val[i + 1] = Data[PrePosition + i + 1]
              /\ Position = PrePosition + WIDTH
        /\ ~last.out.some => Position = PrePosition

\* A full vector taken at a position that scalar steps left off a multiple
\* of the width.
C1_Witness ==
    /\ IsSlice /\ last.op = "next_vector" /\ last.out.some
    /\ WIDTH = 2 /\ PrePosition = 1 /\ Data[2] # Data[3]

\* C2: on a slice-backed iterator at position p < L, next_partial(default)
\* returns a vector whose lanes below L - p are the remaining elements in
\* order and whose every other lane i is lane i of default, and position
\* becomes L (stated where the remaining L - p elements fit the W lanes).
C2_PartialKeepsDefaultLanes ==
    (IsSlice /\ last.op = "next_partial" /\ PrePosition < L
        /\ L - PrePosition <= WIDTH) =>
        /\ status = "ok"
        /\ last.out.some
        /\ DOMAIN last.out.val = 1..WIDTH
        /\ \A i \in 0..(WIDTH - 1) :
              last.out.val[i + 1] =
                  IF i < L - PrePosition THEN Data[PrePosition + i + 1]
                  ELSE last.arg[i + 1]
        /\ Position = L

\* C3: once next_partial has been called, every later next_partial call
\* returns none and leaves the iterator as it was, whatever was called in
\* between; a next_partial call at position L does the same.
C3_AtMostOnePartial ==
    (last.op = "next_partial"
        /\ (last.hist.partialCalled
               \/ scalar_position(last.pre) = scalar_len(last.pre))) =>
        /\ status = "ok"
        /\ ~last.out.some
        /\ scalar_position(iter) = scalar_position(last.pre)
        /\ iter = last.pre

\* A second next_partial call on a mapped iterator over a slice with a tail.
C3_Witness ==
    /\ IsMap /\ last.op = "next_partial" /\ last.hist.partialCalled
    /\ L % WIDTH # 0 /\ L > WIDTH

\* The vectors a packed iterator produces: next_vector until it returns
\* none, then at most one next_partial(default).
RECURSIVE FullVectors(_)
FullVectors(self) ==
    LET r == next_vector(self)
    IN  IF r.ret.some
        THEN LET rest == FullVectors(r.self)
             IN  [self |-> rest.self, vectors |-> <<r.ret.val>> \o rest.vectors]
        ELSE [self |-> r.self, vectors |-> <<>>]

Produced(self, default) ==
    LET full == FullVectors(self)
        p == next_partial(full.self, default)
    IN  [self |-> p.self,
         vectors |-> IF p.ret.some THEN Append(full.vectors, p.ret.val)
                     ELSE full.vectors]

RECURSIVE FoldLeft(_, _, _)
FoldLeft(func, acc, vectors) ==
    IF vectors = <<>> THEN acc
    ELSE FoldLeft(func, Fold(func, acc, Head(vectors)), Tail(vectors))

\* C4: simd_reduce(start, default, f) returns the left fold of f from start
\* over the vectors of exhaustive next_vector calls followed by at most one
\* next_partial(default) vector, and leaves the iterator where those calls
\* leave it; with f recording its arguments, f is applied once per vector
\* in production order.
C4_ReduceComposition ==
    (last.op = "simd_reduce") =>
        LET ref == Produced(last.pre, last.arg.default)
        IN  /\ status = "ok"
            /\ last.out = FoldLeft(last.arg.func, last.arg.start, ref.vectors)
            /\ last.arg.func = "push" => last.out = ref.vectors
            /\ iter = ref.self

\* A reduce that takes the branch without a full vector: one scalar left of
\* a slice of two, at width two.
C4_Witness ==
    /\ last.op = "simd_reduce" /\ last.arg.func = "push"
    /\ scalar_position(last.pre) = 1 /\ L = 2 /\ WIDTH = 2
    /\ Len(last.out) = 1

\* The transform of the iterator, on one scalar.
Transform(x) == IF IsMap THEN ScalarFn(iter.func, x) ELSE x

\* C5: scalar_collect, and scalar_fill into a buffer of length >= L, on a
\* fresh iterator over S mapped by a lane-wise f yield f(S[i]) at every
\* index i < L, in order; scalar_collect yields exactly L elements; with
\* f the identity the result is S.
C5_MaterializeIsScalarMap ==
    ((last.op = "scalar_collect"
        \/ (last.op = "scalar_fill" /\ Len(last.arg) >= L))
     /\ scalar_position(last.pre) = 0) =>
        /\ status = "ok"
        /\ last.op = "scalar_collect" => DOMAIN last.out.buf = 1..L
        /\ last.op = "scalar_fill" => DOMAIN last.out.buf = DOMAIN last.arg
        /\ \A i \in 1..L : last.out.buf[i] = Transform(Data[i])
        /\ (IsMap /\ iter.func = "id") =>
              \A i \in 1..L : last.out.buf[i] = Data[i]

\* A collect over a mapped slice whose length the width does not divide.
C5_Witness ==
    /\ IsMap /\ iter.func = "inc" /\ last.op = "scalar_collect"
    /\ scalar_position(last.pre) = 0 /\ L = 4 /\ WIDTH = 3 /\ status = "ok"

\* C6: scalar_collect, called in any reachable state, returns a buffer of
\* length scalar_len() whose every slot has been written exactly once, in
\* increasing offset order.
C6_CollectWritesEverySlot ==
    (last.op = "scalar_collect") =>
        /\ status = "ok"
        /\ DOMAIN last.out.buf = 1..scalar_len(iter)
        /\ last.out.writes = [i \in 1..scalar_len(iter) |-> i - 1]
        /\ \A i \in 1..scalar_len(iter) : last.out.buf[i] # Uninit

\* C7: 0 <= scalar_position() <= scalar_len() in every state, scalar_len()
\* never changes and scalar_position() never decreases.
C7_PositionBounds ==
    /\ [](0 <= scalar_position(iter)
             /\ scalar_position(iter) <= scalar_len(iter))
    /\ [][/\ scalar_len(iter)' = scalar_len(iter)
          /\ scalar_position(iter)' >= scalar_position(iter)]_vars

\* The cursor at the end of the slice after a scalar step that followed
\* vector steps.
C7_Witness ==
    /\ last.op = "next" /\ last.out.some /\ ~hist.partialCalled
    /\ scalar_position(iter) = scalar_len(iter) /\ L = 3 /\ WIDTH = 2

\* C8 as stated: every operation leaves position, advances it by exactly W,
\* or sets it to L.
C8_StepByWidthOrToEnd ==
    [][\/ Position' = Position
       \/ Position' = Position + WIDTH
       \/ Position' = L]_vars

\* C8 amended: every operation leaves position, advances it by exactly W
\* (next_vector), sets it to L (next_partial and the terminal operations),
\* or advances it by exactly 1 (scalar next); none rewinds it.
C8_StepShapes ==
    [][/\ Position' >= Position
       /\ last'.op = "next_vector" =>
             Position' \in {Position, Position + WIDTH}
       /\ last'.op = "next_partial" => Position' \in {Position, L}
       /\ last'.op = "next" => Position' \in {Position, Position + 1}
       /\ last'.op \in {"simd_reduce", "scalar_collect", "scalar_fill"} =>
             (Position' = L \/ status' = "panicked")]_vars

\* A scalar step that is neither a step by the width nor a jump to the end.
C8_Witness ==
    /\ last.op = "next" /\ Position = PrePosition + 1
    /\ WIDTH # 1 /\ Position # L

\* C9: a map combinator reports the length and the position of its inner
\* iterator in every state, holds no position of its own, and a step made
\* through it moves the inner iterator as the same step made on the inner
\* iterator does.
C9_MapTransparency ==
    IsMap =>
        /\ scalar_len(iter) = PackedIter_scalar_len(iter.iter)
        /\ scalar_position(iter) = PackedIter_scalar_position(iter.iter)
        /\ DOMAIN iter = {"kind", "iter", "func"}
        /\ last.op = "next_vector" =>
              iter.iter = PackedIter_next_vector(last.pre.iter).self
        /\ last.op = "next_partial" =>
              \E d \in Defaults :
                  iter.iter = PackedIter_next_partial(last.pre.iter, d).self
        /\ last.op = "next" => iter.iter = PackedIter_next(last.pre.iter).self

\* A mapped iterator part-way through its slice.
C9_Witness ==
    /\ IsMap /\ last.op = "next_vector" /\ last.out.some
    /\ scalar_position(iter) = 3 /\ scalar_len(iter) = 4

\* C10: on a fresh slice-backed iterator the next_vector calls that succeed
\* are exactly the first floor(L / W) ones, and a next_partial call made
\* after them returns a vector iff L mod W # 0.
C10_FullStepCount ==
    /\ (IsSlice /\ hist.onlyVector /\ last.op = "next_vector") =>
          IF last.out.some
          THEN ~last.hist.vectorNone /\ hist.vectors <= L \div WIDTH
          ELSE hist.vectors = L \div WIDTH
    /\ (IsSlice /\ last.op = "next_partial" /\ last.hist.onlyVector
           /\ last.hist.vectors = L \div WIDTH) =>
          /\ status = "ok"
          /\ last.out.some <=> (L % WIDTH # 0)

\* Two full vectors of a slice of exact-multiple length, then no partial.
C10_Witness ==
    /\ IsSlice /\ last.op = "next_partial" /\ last.hist.onlyVector
    /\ last.hist.vectors = 2 /\ L = 4 /\ WIDTH = 2 /\ ~last.out.some

\* C11: over an empty slice next_vector and next_partial return none and
\* leave position at 0, simd_reduce returns start without applying the fold
\* function, and scalar_collect returns an empty sequence.
C11_EmptySequence ==
    (L = 0) =>
        /\ status = "ok"
        /\ scalar_position(iter) = 0
        /\ last.op \in {"next_vector", "next_partial"} => ~last.out.some
        /\ last.op = "simd_reduce" => last.out = last.arg.start
        /\ last.op = "scalar_collect" =>
              last.out.buf = <<>> /\ last.out.writes = <<>>

\* A reduce over an empty slice with the fold that records its arguments.
C11_Witness ==
    /\ L = 0 /\ last.op = "simd_reduce" /\ last.arg.func = "push"
    /\ last.arg.default # splat(0)

\* C12: in every run of simd_reduce at most one next_partial call returns a
\* vector, the debug assertion that a further next_partial returns none
\* holds (the run does not panic), and evaluating it changes neither the
\* iterator nor the accumulator.
C12_ReduceAssertion ==
    (last.op = "simd_reduce") =>
        /\ status = "ok"
        /\ \A d \in Defaults : next_partial(iter, d) = Ret(iter, None)
        /\ ReduceAssert(iter, last.out, last.arg.default) = Ret(iter, last.out)
        /\ last.arg.func = "push" =>
              Len(last.out) <= Len(FullVectors(last.pre).vectors) + 1

\* A debug-build reduce over a mapped slice that folds a partial vector.
C12_Witness ==
    /\ debug_assertions /\ IsMap /\ last.op = "simd_reduce"
    /\ last.arg.func = "push"
    /\ Len(last.out) = Len(FullVectors(last.pre).vectors) + 1
    /\ Len(last.out) >= 2

\* The sum of the elements of s whose 0-based index is congruent to lane
\* modulo the width, counting from index k; the sum of a sequence.
RECURSIVE LaneSum(_, _, _)
LaneSum(s, lane, k) ==
    IF k >= Len(s) THEN 0
    ELSE (IF k % WIDTH = lane THEN s[k + 1] ELSE 0) + LaneSum(s, lane, k + 1)

RECURSIVE SeqSum(_)
SeqSum(s) == IF s = <<>> THEN 0 ELSE Head(s) + SeqSum(Tail(s))

\* C13: on a fresh slice-backed iterator over S, simd_reduce with start and
\* default all zero and lane-wise addition returns in lane i the sum of the
\* S[j] with j mod W = i, so the lanes add up to the sum of S; the last
\* vector folded is the tail of S followed by zeros.
C13_LaneWiseSum ==
    (IsSlice /\ last.op = "simd_reduce" /\ PrePosition = 0
        /\ last.arg.default = splat(0)) =>
        /\ status = "ok"
        /\ (last.arg.func = "add" /\ last.arg.start = splat(0)) =>
              /\ DOMAIN last.out = 1..WIDTH
              /\ \A i \in 0..(WIDTH - 1) :
                    last.out[i + 1] = LaneSum(Data, i, 0)
              /\ SeqSum(last.out) = SeqSum(Data)
        /\ (last.arg.func = "push" /\ L % WIDTH # 0) =>
              \A i \in 0..(WIDTH - 1) :
                  last.out[Len(last.out)][i + 1] =
                      IF i < L % WIDTH
                      THEN Data[L - (L % WIDTH) + i + 1] ELSE 0

\* A sum over a slice of one full vector and a tail, the elements not all
\* equal.
C13_Witness ==
    /\ IsSlice /\ last.op = "simd_reduce" /\ PrePosition = 0
    /\ last.arg.func = "add" /\ last.arg.default = splat(0)
    /\ L = 3 /\ WIDTH = 2 /\ last.out = <<3, 2>>

\* C14: scalar_fill called with a destination shorter than scalar_len() is
\* rejected: the call aborts and never returns normally.
C14_ShortFillAborts ==
    (last.op = "scalar_fill" /\ Len(last.arg) < scalar_len(last.pre)) =>
        status = "panicked"

C16_PartialLanesInRange ==
    (IsSlice /\ last.op = "next_partial") =>
        /\ L - PrePosition <= WIDTH
        /\ status = "ok"

\* C17: every load of next_vector reads WIDTH elements inside the slice, and
\* every store and indexed write of scalar_collect, and of scalar_fill into
\* a buffer of length >= scalar_len(), falls inside the buffer: neither
\* call panics and every offset written is below the buffer's length.
C17_LoadsAndStoresInBounds ==
    /\ (last.op = "next_vector" /\ last.out.some) =>
          PrePosition + WIDTH <= Len(Data)
    /\ (last.op = "scalar_collect"
           \/ (last.op = "scalar_fill"
                  /\ Len(last.arg) >= scalar_len(last.pre))) =>
          /\ status = "ok"
          /\ \A k \in 1..Len(last.out.writes) :
                /\ last.out.writes[k] >= 0
                /\ last.out.writes[k] < Len(last.out.buf)

\* A collect that starts off a multiple of the width: one store and one
\* indexed write.
C17_Witness ==
    /\ last.op = "scalar_collect" /\ WIDTH = 2 /\ L = 4 /\ PrePosition = 1
    /\ last.out.writes = <<0, 1, 2>>

\* C18: when simd_reduce, scalar_collect or scalar_fill returns, position is
\* scalar_len(), and every next_vector, next_partial and scalar next call
\* made afterwards returns none.
C18_TerminalExhausts ==
    /\ (last.op \in {"simd_reduce", "scalar_collect", "scalar_fill"}
           /\ status = "ok") =>
          scalar_position(iter) = scalar_len(iter)
    /\ (last.hist.terminalReturned
           /\ last.op \in {"next_vector", "next_partial", "next"}) =>
          /\ status = "ok"
          /\ ~last.out.some
          /\ iter = last.pre
    /\ hist.terminalReturned =>
          (status = "ok" => scalar_position(iter) = scalar_len(iter))

\* A scalar step on a mapped slice after a terminal operation has returned.
C18_Witness ==
    /\ IsMap /\ last.op = "next" /\ last.hist.terminalReturned
    /\ L = 4 /\ WIDTH = 3

\* No stepping operation returns a value any more, or a call has unwound.
Exhausted ==
    \/ status = "panicked"
    \/ /\ ~next_vector(iter).ret.some
       /\ ~next(iter).ret.some
       /\ \A d \in Defaults : ~next_partial(iter, d).ret.some

\* C19: every stepping call that returns a value moves the cursor forward,
\* so repeated stepping reaches the point where every stepping operation
\* returns none (or a call has unwound) and stays there; simd_reduce started
\* at position p applies the fold function at most floor((L - p) / W) + 1
\* times.
C19_Termination ==
    /\ [][(last'.op \in {"next_vector", "next_partial", "next"}
              /\ last'.out.some) => Position' > Position]_vars
    /\ []((last.op = "simd_reduce" /\ last.arg.func = "push") =>
             Len(last.out) <= ((L - PrePosition) \div WIDTH) + 1)
    /\ <>[]Exhausted

\* A reduce that applies the fold function exactly floor((L - p) / W) + 1
\* times, from a position scalar steps have reached.
C19_Witness ==
    /\ last.op = "simd_reduce" /\ last.arg.func = "push"
    /\ PrePosition = 1 /\ L = 4 /\ WIDTH = 2 /\ Len(last.out) = 2

\* The subtraction inside the map combinator's size_hint goes below zero.
SizeHintUnderflows ==
    IsMap /\ PackedMap_len(iter) < PackedIter_scalar_position(iter.iter) * WIDTH

\* C20: in every reachable state in which no call has unwound, size_hint
\* returns (r, r) with r = L - position, the number of items scalar next
\* will still yield, its unsigned subtraction does not go below zero, and
\* len() equals the same r.
C20_SizeHintExact ==
    status = "ok" =>
        /\ ~SizeHintUnderflows
        /\ ~size_hint(iter).panicked
        /\ size_hint(iter).ret = <<L - Position, Some(L - Position)>>
        /\ len(iter) = L - Position

====
